---- MODULE Spec2Model ----
(***************************************************************************)
(* rusty-primes: the packed BitSet (src/src/bitset.rs) and the plain and   *)
(* segmented sieves of Eratosthenes with int_sqrt (src/src/sieve.rs).      *)
(*                                                                         *)
(* A machine word (usize) is modelled as the set of the positions of its   *)
(* one bits, a subset of 0..BITS_PER_WORD-1; the word operations of the    *)
(* source (!, <<, &, |, - 1, count_ones, trailing_zeros) are operators on  *)
(* such sets.  Indices and counters are naturals.                          *)
(***************************************************************************)
EXTENDS Integers, Sequences, FiniteSets

VARIABLES
    \* ---- BitSet harness (a caller driving one BitSet) ----
    bits,       \* the BitSet under test: [words, last_word_set]
    blen,       \* the logical length the caller holds for `bits`
    S,          \* the indices the caller has passed to set() since new()
    bpc,        \* position of the caller
    it,         \* the IterOnes iterator: [ptr, end, word, i]
    out,        \* the items next() has returned so far
    ops,        \* number of truncate/set_all/clear_all calls made
    \* ---- int_sqrt, one call ----
    sq_pc, sq_n, x0, x1, sq_sum, sq_ret,
    \* ---- the sieves ----
    pc,         \* program position
    entry,      \* which public function the caller invoked
    n,          \* the argument n of the public call
    ret,        \* who called gen_table: "seg", "base" or "pub"
    tn,         \* gen_table's parameter n
    table,      \* gen_table's local `table`
    i, i_squared, j,              \* gen_table's locals
    seg,        \* prime_pi's `seg`
    seg_len, res, low, high, max, \* prime_pi's locals
    buf,        \* the allocation behind `primes`: capacity len + 1
    primes_len, \* primes.len()
    cit,        \* the iterator collect_primes runs
    ptr,        \* for_each_max's `ptr`, as an offset into buf
    mp, mi,     \* mark_non_primes' p and i
    locate_i,   \* the unchecked get/clear made last by the function now running
    windows,    \* the windows <<low, high>> the loop has counted so far
    seg_pi,     \* what SegmentedEratosthenes::prime_pi returned
    base_pi     \* what Eratosthenes::prime_pi returned

bitVars == <<bits, blen, S, bpc, it, out, ops>>
sqrtVars == <<sq_pc, sq_n, x0, x1, sq_sum, sq_ret>>
tableVars == <<tn, table, i, i_squared, j>>
segVars == <<seg, seg_len, res, low, high, max, buf, primes_len, cit, ptr, mp, mi, windows>>
sieveVars == <<pc, entry, n, ret, tableVars, segVars, locate_i, seg_pi, base_pi>>
vars == <<bitVars, sqrtVars, sieveVars>>

\* ---------------------------------------------------------------- bounds
MaxLen == 130
MaxSets == 3
MaxOps == 3
MaxSqrtN == 2000
MaxN == 150

\* ------------------------------------------------- integer bit arithmetic
RECURSIVE Pow2(_)
Pow2(k) == IF k = 0 THEN 1 ELSE 2 * Pow2(k - 1)

Shl(x, k) == x * Pow2(k)
Shr(x, k) == x \div Pow2(k)

RECURSIVE BitAndN(_, _)
BitAndN(a, b) ==
    IF a = 0 \/ b = 0 THEN 0
    ELSE (a % 2) * (b % 2) + 2 * BitAndN(a \div 2, b \div 2)

RECURSIVE BitOrN(_, _)
BitOrN(a, b) ==
    IF a = 0 THEN b
    ELSE IF b = 0 THEN a
    ELSE (IF a % 2 = 1 \/ b % 2 = 1 THEN 1 ELSE 0) + 2 * BitOrN(a \div 2, b \div 2)

RECURSIVE PopCountN(_)
PopCountN(x) == IF x = 0 THEN 0 ELSE (x % 2) + PopCountN(x \div 2)

\* `x as u32`: x modulo 2^32
AsU32(x) == x - Shr(Shr(x, 16), 16) * Pow2(16) * Pow2(16)

SetMin(s) == CHOOSE m \in s : \A k \in s : m <= k

\* ------------------------------------------------------------ bitset.rs
BITS_PER_WORD == 64
BIT_INDEX_MASK == BITS_PER_WORD - 1
WORD_INDEX_SHIFTS == PopCountN(BIT_INDEX_MASK)

\* !0
AllOnes == 0 .. (BITS_PER_WORD - 1)
WNot(w) == AllOnes \ w
WAnd(a, b) == a \cap b
WOr(a, b) == a \cup b
\* w << k, bits shifted past the top are lost
WShl(w, k) == {b + k : b \in w} \cap AllOnes
\* w - 1, wrapping
WDec(w) ==
    IF w = {} THEN AllOnes
    ELSE LET t == SetMin(w) IN (w \ {t}) \cup (0 .. (t - 1))
WCountOnes(w) == Cardinality(w)
WTrailingZeros(w) == IF w = {} THEN BITS_PER_WORD ELSE SetMin(w)

\* !((!0 - 1) << last_bit_i) with last_bit_i = (len - 1) & BIT_INDEX_MASK
LastWordSet(len) ==
    LET last_bit_i == BitAndN(len - 1, BIT_INDEX_MASK)
    IN  WNot(WShl(WDec(AllOnes), last_bit_i))

WordsFor(len) == Shr(len - 1, WORD_INDEX_SHIFTS) + 1

\* BitSet::new; len # 0 is asserted by the source
BitSetNew(len, initial_v) ==
    LET words == WordsFor(len)
        last_word_set == LastWordSet(len)
    IN  [words |-> IF initial_v
                   THEN [k \in 1 .. words |-> IF k < words THEN AllOnes ELSE last_word_set]
                   ELSE [k \in 1 .. words |-> {}],
         last_word_set |-> last_word_set]

\* BitSet::locate: (word_i, mask)
Locate(idx) ==
    [word_i |-> Shr(idx, WORD_INDEX_SHIFTS),
     mask |-> WShl({0}, BitAndN(idx, BIT_INDEX_MASK))]

\* get_unchecked(word_i) is defined only inside the storage
InStorage(bs, idx) == Locate(idx).word_i < Len(bs.words)

\* the two debug_assert! of locate
LocateDebugOk(bs, idx) ==
    /\ Locate(idx).word_i < Len(bs.words)
    /\ WAnd(bs.last_word_set, Locate(idx).mask) # {}

BitSetSet(bs, idx) ==
    LET l == Locate(idx)
    IN  [bs EXCEPT !.words[l.word_i + 1] = WOr(@, l.mask)]

BitSetClear(bs, idx) ==
    LET l == Locate(idx)
    IN  [bs EXCEPT !.words[l.word_i + 1] = WAnd(@, WNot(l.mask))]

BitSetGet(bs, idx) ==
    LET l == Locate(idx)
    IN  WAnd(bs.words[l.word_i + 1], l.mask) # {}

\* set_all() that fills the last word too, without the tail mask
BitSetSetAll_NoMask(bs) ==
    [bs EXCEPT !.words = [k \in 1 .. Len(bs.words) |-> AllOnes]]

BitSetSetAll(bs) ==
    LET len == Len(bs.words)
    IN  [bs EXCEPT !.words = [k \in 1 .. len |->
                                 IF k < len THEN AllOnes ELSE bs.last_word_set]]

BitSetClearAll(bs) ==
    [bs EXCEPT !.words = [k \in 1 .. Len(bs.words) |-> {}]]

\* truncate() that forgets to recompute last_word_set
BitSetTruncate_KeepMask(bs, len) ==
    LET words == Shr(len - 1, WORD_INDEX_SHIFTS) + 1
    IN  [words |-> IF words < Len(bs.words) THEN SubSeq(bs.words, 1, words) ELSE bs.words,
         last_word_set |-> bs.last_word_set]

\* Vec::truncate keeps the first `words` words (and never grows)
BitSetTruncate(bs, len) ==
    LET words == WordsFor(len)
    IN  [words |-> IF words < Len(bs.words) THEN SubSeq(bs.words, 1, words) ELSE bs.words,
         last_word_set |-> LastWordSet(len)]

RECURSIVE SumOnes(_, _)
SumOnes(words, k) ==
    IF k = 0 THEN 0 ELSE WCountOnes(words[k]) + SumOnes(words, k - 1)

BitSetCountOnes(bs) == SumOnes(bs.words, Len(bs.words))

\* BitSet::iter_ones; pointers are offsets into `words`
IterOnes(bs) ==
    [ptr |-> 0, end |-> Len(bs.words), word |-> bs.words[1], i |-> 0]

None == -1

\* the `while self.word == 0` loop of IterOnes::next
RECURSIVE IterSkip(_, _)
IterSkip(bs, itr) ==
    IF itr.word # {} THEN [done |-> FALSE, it |-> itr]
    ELSE LET next == itr.ptr + 1
         IN  IF next = itr.end THEN [done |-> TRUE, it |-> itr]
             ELSE IterSkip(bs, [itr EXCEPT !.ptr = next,
                                           !.word = bs.words[next + 1],
                                           !.i = itr.i + Shl(1, WORD_INDEX_SHIFTS)])

\* next() forgetting the word's base index `self.i |`
IterNext_NoBase(bs, itr) ==
    LET a == IterSkip(bs, itr)
    IN  IF a.done THEN [item |-> None, it |-> a.it]
        ELSE [item |-> WTrailingZeros(a.it.word),
              it |-> [a.it EXCEPT !.word = WAnd(@, WDec(@))]]

\* IterOnes::next: the item returned (None at the end) and the iterator after
IterNext(bs, itr) ==
    LET a == IterSkip(bs, itr)
    IN  IF a.done THEN [item |-> None, it |-> a.it]
        ELSE [item |-> BitOrN(a.it.i, WTrailingZeros(a.it.word)),
              it |-> [a.it EXCEPT !.word = WAnd(@, WDec(@))]]

\* the logical length a BitSet's storage and tail mask stand for
BitSetLen(bs) == (Len(bs.words) - 1) * BITS_PER_WORD + WCountOnes(bs.last_word_set)

\* the indices of the one bits physically present in the storage
BitSetOnes(bs) ==
    UNION {{(k - 1) * BITS_PER_WORD + b : b \in bs.words[k]} : k \in 1 .. Len(bs.words)}

\* ------------------------------------------------------------- idle values
NoBitSet == [words |-> <<{}>>, last_word_set |-> {}]
NoIter == [ptr |-> 0, end |-> 0, word |-> {}, i |-> 0]
NoAccess == [fn |-> "none", idx |-> 0, len |-> 0, debug_ok |-> TRUE]

BitsIdle ==
    /\ bits = NoBitSet /\ blen = 0 /\ S = {} /\ bpc = "idle"
    /\ it = NoIter /\ out = <<>> /\ ops = 0

SqrtIdle ==
    /\ sq_pc = "idle" /\ sq_n = 0 /\ x0 = 0 /\ x1 = 0 /\ sq_sum = 0 /\ sq_ret = None

SieveIdle ==
    /\ pc = "idle" /\ entry = "none" /\ n = 0 /\ ret = "none"
    /\ tn = 0 /\ table = NoBitSet /\ i = 0 /\ i_squared = 0 /\ j = 0
    /\ seg = NoBitSet /\ seg_len = 0 /\ res = 0 /\ low = 0 /\ high = 0 /\ max = 0
    /\ buf = <<>> /\ primes_len = 0 /\ cit = NoIter /\ ptr = 0 /\ mp = 0 /\ mi = 0
    /\ windows = <<>> /\ locate_i = NoAccess /\ seg_pi = None /\ base_pi = None

\* ---------------------------------------------------- a caller of BitSet
\* bit positions at the edges and the middle of a word
ProbeOffsets == {0, 1, BITS_PER_WORD \div 2, BITS_PER_WORD - 1}
ProbeIndices(len) == {x \in 0 .. (len - 1) : BitAndN(x, BIT_INDEX_MASK) \in ProbeOffsets}

\* let mut b = BitSet::new(L, v)
BNew(L, v) ==
    /\ bits = BitSetNew(L, v) /\ blen = L /\ S = {} /\ bpc = "ready"
    /\ it = NoIter /\ out = <<>> /\ ops = 0

\* b.set(x), x inside the logical length
BSet(x) ==
    /\ bpc = "ready"
    /\ Cardinality(S) < MaxSets
    /\ x \notin S
    /\ bits' = BitSetSet(bits, x)
    /\ S' = S \cup {x}
    /\ UNCHANGED <<blen, bpc, it, out, ops, sqrtVars, sieveVars>>

\* let mut iter = b.iter_ones()
BIterStart ==
    /\ bpc = "ready"
    /\ it' = IterOnes(bits)
    /\ bpc' = "iter"
    /\ UNCHANGED <<bits, blen, S, out, ops, sqrtVars, sieveVars>>

\* iter.next()
BIterNext ==
    /\ bpc = "iter"
    /\ LET r == IterNext(bits, it)
       IN  /\ it' = r.it
           /\ IF r.item = None
              THEN bpc' = "ended" /\ out' = out
              ELSE bpc' = "iter" /\ out' = Append(out, r.item)
    /\ UNCHANGED <<bits, blen, S, ops, sqrtVars, sieveVars>>

\* b.truncate(newLen), 0 < newLen < the current length
BTruncate(newLen) ==
    /\ bpc \in {"ready", "set", "cleared", "reset"}
    /\ ops < MaxOps
    /\ bits' = BitSetTruncate(bits, newLen)
    /\ blen' = newLen
    /\ bpc' = "truncated"
    /\ ops' = ops + 1
    /\ UNCHANGED <<S, it, out, sqrtVars, sieveVars>>

\* b.set_all()
BSetAll ==
    /\ bpc \in {"ready", "truncated", "cleared"}
    /\ ops < MaxOps
    /\ bits' = BitSetSetAll(bits)
    /\ bpc' = IF bpc = "truncated" THEN "reset" ELSE "set"
    /\ ops' = ops + 1
    /\ UNCHANGED <<blen, S, it, out, sqrtVars, sieveVars>>

\* b.clear_all()
BClearAll ==
    /\ bpc \in {"ready", "truncated", "set", "reset"}
    /\ ops < MaxOps
    /\ bits' = BitSetClearAll(bits)
    /\ bpc' = "cleared"
    /\ ops' = ops + 1
    /\ UNCHANGED <<blen, S, it, out, sqrtVars, sieveVars>>

InitIter ==
    /\ \E L \in 1 .. MaxLen : BNew(L, FALSE)
    /\ SqrtIdle /\ SieveIdle

NextIter ==
    \/ \E x \in ProbeIndices(blen) : BSet(x)
    \/ BIterStart
    \/ BIterNext

SpecIter == InitIter /\ [][NextIter]_vars

InitTrunc ==
    /\ \E L \in 1 .. MaxLen : \E v \in BOOLEAN : BNew(L, v)
    /\ SqrtIdle /\ SieveIdle

NextTrunc ==
    \/ \E newLen \in 1 .. (blen - 1) : BTruncate(newLen)
    \/ BSetAll
    \/ BClearAll

SpecTrunc == InitTrunc /\ [][NextTrunc]_vars

\* ------------------------------------------------ claims about the BitSet
StrictlyAscending(q) == \A a, b \in 1 .. Len(q) : a < b => q[a] < q[b]
Range(q) == {q[k] : k \in 1 .. Len(q)}

\* C3: after BitSet::new(L, false) and set(x) for exactly the x in S (in any
\* order), iter_ones() returns the elements of S, each once, in strictly
\* ascending order (at every moment the items returned so far are the smallest
\* elements of S) and then ends; count_ones() is |S|.
C3_RoundTrip ==
    /\ BitSetCountOnes(bits) = Cardinality(S)
    /\ bpc \in {"iter", "ended"} =>
          /\ StrictlyAscending(out)
          /\ Range(out) \subseteq S
          /\ \A x \in S \ Range(out) : \A y \in Range(out) : y < x
    /\ bpc = "ended" => Range(out) = S /\ Len(out) = Cardinality(S)

\* the iterator ended on a set with ones in the first and the last of three
\* words and none in the word between them
C3_Witness ==
    /\ bpc = "ended"
    /\ Len(bits.words) >= 3
    /\ Cardinality(S) >= 3
    /\ bits.words[2] = {}
    /\ bits.words[1] # {} /\ bits.words[3] # {}
    /\ Range(out) = S

\* C4: new(L, _), truncate(L') with 0 < L' < L, then set_all() leaves
\* count_ones() = L': the one bits are exactly the indices below L'.
C4_TruncateSetAll ==
    bpc = "reset" =>
        /\ BitSetCountOnes(bits) = blen
        /\ BitSetOnes(bits) = 0 .. (blen - 1)

\* set_all() ran after a truncation that kept two words, the second one partly
C4_Witness ==
    /\ bpc = "reset"
    /\ Len(bits.words) = 2
    /\ WCountOnes(bits.last_word_set) \in 2 .. (BITS_PER_WORD - 2)
    /\ BitSetCountOnes(bits) = blen

\* truncate() alone leaves ones at indices past the new length
C4_StaleWitness ==
    /\ bpc = "truncated"
    /\ BitSetCountOnes(bits) > blen

\* ------------------------------------------------------- sieve.rs: int_sqrt

\* starting Newton's iteration at n >> 2
SqrtInitial_Quarter(nn) == Shr(nn, 2)

\* let mut x0 = n >> 1
SqrtInitial(nn) == Shr(nn, 1)
\* x0 + n / x0
SqrtSum(nn, x) == x + nn \div x
\* (x0 + n / x0) >> 1
SqrtStep(nn, x) == Shr(SqrtSum(nn, x), 1)

RECURSIVE IntSqrtLoop(_, _)
IntSqrtLoop(nn, x) ==
    LET y == SqrtStep(nn, x)
    IN  IF y < x THEN IntSqrtLoop(nn, y) ELSE x

\* int_sqrt as a function, as the sieve uses it
IntSqrt(nn) ==
    LET x == SqrtInitial(nn)
    IN  IF x # 0 THEN IntSqrtLoop(nn, x) ELSE nn

\* int_sqrt step by step; a division by zero panics
SqrtStart ==
    /\ sq_pc = "start"
    /\ x0' = SqrtInitial(sq_n)
    /\ IF x0' # 0
       THEN /\ sq_sum' = SqrtSum(sq_n, x0')
            /\ x1' = Shr(sq_sum', 1)
            /\ sq_pc' = "loop"
            /\ sq_ret' = sq_ret
       ELSE /\ sq_ret' = sq_n
            /\ sq_pc' = "done"
            /\ UNCHANGED <<x1, sq_sum>>
    /\ UNCHANGED <<sq_n, bitVars, sieveVars>>

\* one turn of `while x1 < x0`
SqrtLoop ==
    /\ sq_pc = "loop"
    /\ x1 < x0
    /\ x0' = x1
    /\ IF x0' = 0
       THEN sq_pc' = "panic" /\ UNCHANGED <<x1, sq_sum>>
       ELSE /\ sq_sum' = SqrtSum(sq_n, x0')
            /\ x1' = Shr(sq_sum', 1)
            /\ sq_pc' = "loop"
    /\ UNCHANGED <<sq_n, sq_ret, bitVars, sieveVars>>

\* the loop ends and x0 is returned
SqrtReturn ==
    /\ sq_pc = "loop"
    /\ ~(x1 < x0)
    /\ sq_ret' = x0
    /\ sq_pc' = "done"
    /\ UNCHANGED <<sq_n, x0, x1, sq_sum, bitVars, sieveVars>>

InitSqrt ==
    /\ sq_n \in 0 .. MaxSqrtN
    /\ sq_pc = "start" /\ x0 = 0 /\ x1 = 0 /\ sq_sum = 0 /\ sq_ret = None
    /\ BitsIdle /\ SieveIdle

NextSqrt == SqrtStart \/ SqrtLoop \/ SqrtReturn

\* the call runs on one thread with nothing to wait for: it keeps stepping
SpecSqrt == InitSqrt /\ [][NextSqrt]_vars /\ WF_vars(NextSqrt)

\* C6: int_sqrt(n) terminates and returns r with r*r <= n < (r+1)*(r+1); no
\* step divides by zero, and the sum x0 + n/x0 never exceeds max(n, 4), so it
\* fits the type that holds n.
C6_IntSqrtExact ==
    /\ [](sq_pc # "panic")
    /\ [](sq_pc = "loop" => x0 # 0 /\ sq_sum = x0 + sq_n \div x0)
    /\ [](sq_sum <= sq_n \/ sq_sum <= 4)
    /\ [](sq_pc = "done" =>
             /\ sq_ret * sq_ret <= sq_n
             /\ sq_n < (sq_ret + 1) * (sq_ret + 1)
             /\ sq_ret = IntSqrt(sq_n))
    /\ <>(sq_pc = "done")

\* a call that went round the loop more than once and returned the root of a
\* number that is no perfect square
C6_Witness ==
    /\ sq_pc = "done"
    /\ sq_n > 100
    /\ sq_ret * sq_ret < sq_n
    /\ x0 < Shr(sq_n, 3)

\* ------------------------------------------------- sieve.rs: the sieves
\* what an unchecked get/clear was asked: the index, the logical length of the
\* BitSet it went to, and whether locate's debug_assert! would pass
Access(fn, idx, bs) ==
    [fn |-> fn, idx |-> idx, len |-> BitSetLen(bs), debug_ok |-> LocateDebugOk(bs, idx)]

\* an unchecked access outside the storage is undefined behaviour: the run
\* leaves the program, and nothing is known of what follows
UbAt(fn, idx, bs) ==
    /\ pc' = "ub"
    /\ locate_i' = Access(fn, idx, bs)
    /\ UNCHANGED <<entry, n, ret, tableVars, segVars, seg_pi, base_pi>>

\* i_squared += (i << 1) | 1
NextSquare(sq, k) == sq + BitOrN(Shl(k, 1), 1)

\* a caller invokes the public Eratosthenes::gen_table(n)
TableCall ==
    /\ pc = "table_call"
    /\ tn' = n
    /\ ret' = "pub"
    /\ pc' = "gt_new"
    /\ UNCHANGED <<entry, n, table, i, i_squared, j, segVars, locate_i, seg_pi, base_pi,
                   bitVars, sqrtVars>>

\* gen_table: BitSet::new(n + 1, true); table.clear(0)
GenTableNew ==
    /\ pc = "gt_new"
    /\ LET t == BitSetNew(tn + 1, TRUE)
       IN  IF ~InStorage(t, 0)
           THEN UbAt("gen_table", 0, t)
           ELSE /\ table' = BitSetClear(t, 0)
                /\ locate_i' = Access("gen_table", 0, t)
                /\ pc' = "gt_clear1"
                /\ UNCHANGED <<entry, n, ret, tn, i, i_squared, j, segVars, seg_pi, base_pi>>
    /\ UNCHANGED <<bitVars, sqrtVars>>

\* gen_table: table.clear(1); let (mut i, mut i_squared) = (2, 4)
GenTableClear1 ==
    /\ pc = "gt_clear1"
    /\ IF ~InStorage(table, 1)
       THEN UbAt("gen_table", 1, table)
       ELSE /\ table' = BitSetClear(table, 1)
            /\ locate_i' = Access("gen_table", 1, table)
            /\ i' = 2
            /\ i_squared' = 4
            /\ pc' = "gt_loop"
            /\ UNCHANGED <<entry, n, ret, tn, j, segVars, seg_pi, base_pi>>
    /\ UNCHANGED <<bitVars, sqrtVars>>

\* gen_table: one turn of `while i_squared <= n` up to the inner loop
GenTableLoop ==
    /\ pc = "gt_loop"
    /\ i_squared <= tn
    /\ IF ~InStorage(table, i)
       THEN UbAt("gen_table", i, table)
       ELSE /\ locate_i' = Access("gen_table", i, table)
            /\ IF BitSetGet(table, i)
               THEN /\ j' = i_squared
                    /\ pc' = "gt_inner"
                    /\ UNCHANGED <<i, i_squared>>
               ELSE /\ i_squared' = NextSquare(i_squared, i)
                    /\ i' = i + 1
                    /\ pc' = "gt_loop"
                    /\ j' = j
            /\ UNCHANGED <<entry, n, ret, tn, table, segVars, seg_pi, base_pi>>
    /\ UNCHANGED <<bitVars, sqrtVars>>

\* gen_table: one turn of the inner `loop`: clear(j); j += i; break if j > n
GenTableInner ==
    /\ pc = "gt_inner"
    /\ IF ~InStorage(table, j)
       THEN UbAt("gen_table", j, table)
       ELSE /\ table' = BitSetClear(table, j)
            /\ locate_i' = Access("gen_table", j, table)
            /\ j' = j + i
            /\ IF j' > tn
               THEN /\ i_squared' = NextSquare(i_squared, i)
                    /\ i' = i + 1
                    /\ pc' = "gt_loop"
               ELSE /\ pc' = "gt_inner"
                    /\ UNCHANGED <<i, i_squared>>
            /\ UNCHANGED <<entry, n, ret, tn, segVars, seg_pi, base_pi>>
    /\ UNCHANGED <<bitVars, sqrtVars>>

\* gen_table returns to the caller outside the crate
TableReturn ==
    /\ pc = "gt_loop"
    /\ ~(i_squared <= tn)
    /\ ret = "pub"
    /\ locate_i' = NoAccess
    /\ pc' = "done"
    /\ UNCHANGED <<entry, n, ret, tableVars, segVars, seg_pi, base_pi,
                   bitVars, sqrtVars>>

\* Eratosthenes::prime_pi up to its call of gen_table
BaseStart ==
    /\ pc = "base_start"
    /\ IF n < 2
       THEN /\ base_pi' = 0
            /\ pc' = "done"
            /\ UNCHANGED <<ret, tn>>
       ELSE /\ tn' = n
            /\ ret' = "base"
            /\ pc' = "gt_new"
            /\ base_pi' = base_pi
    /\ UNCHANGED <<entry, n, table, i, i_squared, j, segVars, locate_i, seg_pi,
                   bitVars, sqrtVars>>

\* Eratosthenes::prime_pi: Self::gen_table(n).count_ones()
BaseReturn ==
    /\ pc = "gt_loop"
    /\ ~(i_squared <= tn)
    /\ ret = "base"
    /\ base_pi' = BitSetCountOnes(table)
    /\ locate_i' = NoAccess
    /\ pc' = "done"
    /\ UNCHANGED <<entry, n, ret, tableVars, segVars, seg_pi, bitVars, sqrtVars>>

\* a slot of the Vec's allocation nothing was written to
Uninit == None - 1

\* reading or writing past the allocation, or reading a slot never written
UbBuf ==
    /\ pc' = "ub"
    /\ UNCHANGED <<entry, n, ret, tableVars, segVars, locate_i, seg_pi, base_pi>>

\* a dummy element of seg_len, which a bound can reach
Sentinel_SegLen(sl) == AsU32(sl)

\* collect_primes: the dummy element, (seg_len + 1) as u32
Sentinel(sl) == AsU32(sl + 1)

\* always stepping past p_mul, also when low is itself a multiple of p
MarkFirst_SkipExact(lo, p) == (lo \div p) * p + p - lo

\* mark_non_primes: the first index to clear, p_mul - low
MarkFirst(lo, p) ==
    LET p_mul == (lo \div p) * p
    IN  (IF p_mul < lo THEN p_mul + p ELSE p_mul) - lo

\* `while i <= seg_len`
MarkContinue_Inclusive(idx, sl) == idx <= sl

\* mark_non_primes: `while i < seg_len`
MarkContinue(idx, sl) == idx < sl

\* the first window starting on seg_len, the last number of the base range
FirstWindow_FromSegLen(sl) == [low |-> sl, high |-> Shl(sl, 1)]

\* prime_pi: let (mut low, mut high) = (seg_len + 1, seg_len << 1)
FirstWindow(sl) == [low |-> sl + 1, high |-> Shl(sl, 1)]

\* the next high never clamped to n
AdvanceWindow_NoClamp(nn, lo, hi, sl, sg) ==
    [high |-> hi + sl, seg_len |-> sl, seg |-> BitSetSetAll(sg)]

\* prime_pi, lines 80-90: the next high, the segment length and the buffer
AdvanceWindow(nn, lo, hi, sl, sg) ==
    LET next == hi + sl
    IN  IF next > nn
        THEN [high |-> nn,
              seg_len |-> nn - lo + 1,
              seg |-> BitSetSetAll(BitSetTruncate(sg, nn - lo + 1))]
        ELSE [high |-> next, seg_len |-> sl, seg |-> BitSetSetAll(sg)]

\* SegmentedEratosthenes::prime_pi up to its call of gen_table
SegStart ==
    /\ pc = "seg_start"
    /\ IF n < 2
       THEN /\ seg_pi' = 0
            /\ pc' = "base_start"
            /\ UNCHANGED <<ret, tn, seg_len, res>>
       ELSE /\ res' = 0
            /\ seg_len' = IntSqrt(n)
            /\ tn' = seg_len'
            /\ ret' = "seg"
            /\ pc' = "gt_new"
            /\ seg_pi' = seg_pi
    /\ UNCHANGED <<entry, n, table, i, i_squared, j, seg, low, high, max, buf, primes_len,
                   cit, ptr, mp, mi, windows, locate_i, base_pi, bitVars, sqrtVars>>

\* gen_table returns into `seg`; collect_primes: count_ones, with_capacity(len + 1),
\* iter_ones()
CollectStart ==
    /\ pc = "gt_loop"
    /\ ~(i_squared <= tn)
    /\ ret = "seg"
    /\ seg' = table
    /\ table' = NoBitSet
    /\ buf' = [k \in 1 .. (BitSetCountOnes(table) + 1) |-> Uninit]
    /\ cit' = IterOnes(table)
    /\ ptr' = 0
    /\ locate_i' = NoAccess
    /\ pc' = "collect"
    /\ UNCHANGED <<entry, n, ret, tn, i, i_squared, j, seg_len, res, low, high, max,
                   primes_len, mp, mi, windows, seg_pi, base_pi, bitVars, sqrtVars>>

\* collect_primes: one turn of `for p in seg.iter_ones()`
CollectNext ==
    /\ pc = "collect"
    /\ LET r == IterNext(seg, cit)
       IN  /\ r.item # None
           /\ IF ptr >= Len(buf)
              THEN UbBuf
              ELSE /\ buf' = [buf EXCEPT ![ptr + 1] = AsU32(r.item)]
                   /\ ptr' = ptr + 1
                   /\ cit' = r.it
                   /\ pc' = "collect"
                   /\ UNCHANGED <<entry, n, ret, tableVars, seg, seg_len, res, low, high, max,
                                  primes_len, mp, mi, windows, locate_i, seg_pi, base_pi>>
    /\ UNCHANGED <<bitVars, sqrtVars>>

\* collect_primes: the iterator ended; the dummy element is written, set_len(len);
\* prime_pi lines 65-70: res += primes.len(), truncate, set_all, the first window
CollectEnd ==
    /\ pc = "collect"
    /\ LET r == IterNext(seg, cit)
       IN  /\ r.item = None
           /\ IF ptr >= Len(buf)
              THEN UbBuf
              ELSE /\ buf' = [buf EXCEPT ![ptr + 1] = Sentinel(seg_len)]
                   /\ cit' = r.it
                   /\ primes_len' = Len(buf) - 1
                   /\ res' = res + primes_len'
                   /\ seg' = BitSetSetAll(BitSetTruncate(seg, seg_len))
                   /\ low' = FirstWindow(seg_len).low
                   /\ high' = FirstWindow(seg_len).high
                   /\ pc' = "win"
                   /\ UNCHANGED <<entry, n, ret, tableVars, seg_len, max, ptr, mp, mi,
                                  windows, locate_i, seg_pi, base_pi>>
    /\ UNCHANGED <<bitVars, sqrtVars>>

\* the window loop, line 72: max = int_sqrt(high) as u32; for_each_max starts
WindowStart ==
    /\ pc = "win"
    /\ max' = AsU32(IntSqrt(high))
    /\ ptr' = 0
    /\ pc' = "scan"
    /\ UNCHANGED <<entry, n, ret, tableVars, seg, seg_len, res, low, high, buf, primes_len,
                   cit, mp, mi, windows, locate_i, seg_pi, base_pi, bitVars, sqrtVars>>

\* for_each_max: one turn of its loop: read *ptr, break or call mark_non_primes
ForEachMax ==
    /\ pc = "scan"
    /\ IF ptr >= Len(buf)
       THEN UbBuf
       ELSE LET cur == buf[ptr + 1]
            IN  IF cur = Uninit
                THEN UbBuf
                ELSE /\ IF cur > max
                        THEN pc' = "count" /\ UNCHANGED <<mp, mi>>
                        ELSE /\ mp' = cur
                             /\ mi' = MarkFirst(low, cur)
                             /\ pc' = "mark"
                     /\ UNCHANGED <<entry, n, ret, tableVars, seg, seg_len, res, low, high,
                                    max, buf, primes_len, cit, ptr, windows, locate_i,
                                    seg_pi, base_pi>>
    /\ UNCHANGED <<bitVars, sqrtVars>>

\* mark_non_primes: one turn of `while i < seg_len`: clear(i); i += p
MarkClear ==
    /\ pc = "mark"
    /\ MarkContinue(mi, seg_len)
    /\ IF ~InStorage(seg, mi)
       THEN UbAt("mark_non_primes", mi, seg)
       ELSE /\ seg' = BitSetClear(seg, mi)
            /\ locate_i' = Access("mark_non_primes", mi, seg)
            /\ mi' = mi + mp
            /\ pc' = "mark"
            /\ UNCHANGED <<entry, n, ret, tableVars, seg_len, res, low, high, max, buf,
                           primes_len, cit, ptr, mp, windows, seg_pi, base_pi>>
    /\ UNCHANGED <<bitVars, sqrtVars>>

\* mark_non_primes returns (no access is in flight any more); for_each_max:
\* ptr = ptr.add(1)
MarkReturn ==
    /\ pc = "mark"
    /\ ~MarkContinue(mi, seg_len)
    /\ ptr' = ptr + 1
    /\ locate_i' = NoAccess
    /\ pc' = "scan"
    /\ UNCHANGED <<entry, n, ret, tableVars, seg, seg_len, res, low, high, max, buf,
                   primes_len, cit, mp, mi, windows, seg_pi, base_pi,
                   bitVars, sqrtVars>>

\* lines 74-90 when another window follows: count, move low, move high
\* (truncating for a short last window), set_all
WindowAdvance ==
    /\ pc = "count"
    /\ ~(high + 1 > n)
    /\ res' = res + BitSetCountOnes(seg)
    /\ windows' = Append(windows, <<low, high>>)
    /\ low' = high + 1
    /\ LET a == AdvanceWindow(n, low', high, seg_len, seg)
       IN  /\ high' = a.high
           /\ seg_len' = a.seg_len
           /\ seg' = a.seg
    /\ pc' = "win"
    /\ UNCHANGED <<entry, n, ret, tableVars, max, buf, primes_len, cit, ptr, mp, mi,
                   locate_i, seg_pi, base_pi, bitVars, sqrtVars>>

\* lines 74-78 and 92 when low > n: count, break, return res
WindowLast ==
    /\ pc = "count"
    /\ high + 1 > n
    /\ res' = res + BitSetCountOnes(seg)
    /\ windows' = Append(windows, <<low, high>>)
    /\ low' = high + 1
    /\ seg_pi' = res'
    /\ pc' = "base_start"
    /\ UNCHANGED <<entry, n, ret, tableVars, seg, seg_len, high, max, buf, primes_len,
                   cit, ptr, mp, mi, locate_i, base_pi, bitVars, sqrtVars>>

\* ------------------------------------------------------------ the callers
\* inputs whose segments fill one word exactly and spill into a second word
LargeInputs ==
    {BITS_PER_WORD * BITS_PER_WORD,
     (BITS_PER_WORD + 1) * (BITS_PER_WORD + 1) + BITS_PER_WORD + 11}

\* an input past the range whose prime count is on record
KnownInputs == {1000}

Inputs == (0 .. MaxN) \cup KnownInputs \cup LargeInputs

\* a caller either compares the two prime_pi on n, or calls gen_table(n)
Init ==
    /\ n \in Inputs
    /\ entry \in {"prime_pi", "gen_table"}
    /\ pc = IF entry = "prime_pi" THEN "seg_start" ELSE "table_call"
    /\ ret = "none"
    /\ tn = 0 /\ table = NoBitSet /\ i = 0 /\ i_squared = 0 /\ j = 0
    /\ seg = NoBitSet /\ seg_len = 0 /\ res = 0 /\ low = 0 /\ high = 0 /\ max = 0
    /\ buf = <<>> /\ primes_len = 0 /\ cit = NoIter /\ ptr = 0 /\ mp = 0 /\ mi = 0
    /\ windows = <<>> /\ locate_i = NoAccess /\ seg_pi = None /\ base_pi = None
    /\ BitsIdle /\ SqrtIdle

Next ==
    \/ TableCall \/ GenTableNew \/ GenTableClear1 \/ GenTableLoop \/ GenTableInner
    \/ TableReturn \/ BaseStart \/ BaseReturn
    \/ SegStart \/ CollectStart \/ CollectNext \/ CollectEnd
    \/ WindowStart \/ ForEachMax \/ MarkClear \/ MarkReturn
    \/ WindowAdvance \/ WindowLast

Spec == Init /\ [][Next]_vars

\* ------------------------------------------------ what the sieves should give
RECURSIVE HasDivisorFrom(_, _)
HasDivisorFrom(k, d) ==
    IF d * d > k THEN FALSE
    ELSE IF k % d = 0 THEN TRUE
    ELSE HasDivisorFrom(k, d + 1)

IsPrime(k) == k >= 2 /\ ~HasDivisorFrom(k, 2)

PrimeCount(nn) == Cardinality({k \in 0 .. nn : IsPrime(k)})

\* C1: SegmentedEratosthenes::prime_pi(n) returns the number of primes <= n
\* (0 for n < 2).
KnownValues == <<(<<0, 0>>), (<<1, 0>>), (<<2, 1>>), (<<10, 4>>), (<<100, 25>>), (<<1000, 168>>)>>

C1_SegmentedPrimePi ==
    /\ pc = "base_start" => seg_pi = PrimeCount(n)
    /\ pc = "base_start" /\ n < 2 => seg_pi = 0
    /\ pc = "base_start" =>
          \A k \in 1 .. Len(KnownValues) : n = KnownValues[k][1] => seg_pi = KnownValues[k][2]
    /\ pc # "ub"

\* prime_pi(100) = 25, one of the known values
C1_Witness ==
    /\ entry = "prime_pi" /\ pc = "base_start"
    /\ n = 100 /\ seg_pi = 25

\* C2: SegmentedEratosthenes::prime_pi(n) = Eratosthenes::prime_pi(n).
C2_CrossConsistency ==
    entry = "prime_pi" /\ pc = "done" => seg_pi = base_pi

\* both ran on an input whose windows take two words, and agree
C2_Witness ==
    /\ entry = "prime_pi" /\ pc = "done"
    /\ n > BITS_PER_WORD * BITS_PER_WORD
    /\ seg_pi = base_pi /\ seg_pi > BITS_PER_WORD

WindowPcs == {"win", "scan", "mark", "count"}

\* the windows counted so far, and the one in work
AllWindows == windows \o (IF pc \in WindowPcs THEN <<(<<low, high>>)>> ELSE <<>>)

RECURSIVE SumLengths(_, _)
SumLengths(ws, k) ==
    IF k = 0 THEN 0 ELSE (ws[k][2] - ws[k][1] + 1) + SumLengths(ws, k - 1)

\* C5: for n >= 2 the windows [low, high] are contiguous and disjoint, start
\* at int_sqrt(n) + 1, never pass n, have a length in (0, int_sqrt(n)], and
\* end with high = n: with the base range [0, int_sqrt(n)] they cover [0, n]
\* exactly once.
C5_WindowArithmetic ==
    entry = "prime_pi" /\ n >= 2 =>
        LET s == IntSqrt(n)
            ws == AllWindows
        IN  /\ \A k \in 1 .. Len(ws) :
                  /\ ws[k][1] = (IF k = 1 THEN s + 1 ELSE ws[k - 1][2] + 1)
                  /\ ws[k][2] <= n
                  /\ ws[k][2] - ws[k][1] + 1 > 0
                  /\ ws[k][2] - ws[k][1] + 1 <= s
            /\ seg_pi # None =>
                  /\ Len(windows) >= 1
                  /\ windows[Len(windows)][2] = n
                  /\ (s + 1) + SumLengths(windows, Len(windows)) = n + 1

\* a run whose last window is shorter than the others
C5_Witness ==
    /\ entry = "prime_pi" /\ seg_pi # None
    /\ Len(windows) >= 3
    /\ windows[Len(windows)][2] - windows[Len(windows)][1] + 1 < IntSqrt(n)
    /\ windows[1][2] - windows[1][1] + 1 = IntSqrt(n)

\* C7, as the specification states it: when int_sqrt(n) is 0 or 1 the window
\* loop never executes and the result is the count of primes in the base table.
C7_NoWindowForSmallSegLen ==
    entry = "prime_pi" /\ IntSqrt(n) \in {0, 1} =>
        /\ pc \notin WindowPcs
        /\ windows = <<>>
        /\ seg_pi # None => seg_pi = primes_len

\* C7, amended: for n < 2 (where int_sqrt(n) = n) prime_pi returns 0 before
\* any table is built and the loop never executes.  For int_sqrt(n) = 1 with
\* n >= 2 (n = 2 or 3) the base table holds no prime and no marking pass runs,
\* but the loop does execute, once for each number of [2, n] in a window of
\* length 1, and the result n - 1 is the sum of the window counts.
C7_SmallSegLen ==
    entry = "prime_pi" /\ IntSqrt(n) \in {0, 1} =>
        /\ IntSqrt(n) = 0 => n = 0
        /\ n < 2 =>
              /\ pc \in {"seg_start", "base_start", "done"}
              /\ windows = <<>>
              /\ seg_pi # None => seg_pi = 0
        /\ n >= 2 =>
              /\ n \in {2, 3}
              /\ pc \notin {"mark", "ub"}
              /\ \A k \in 1 .. Len(AllWindows) : AllWindows[k] = <<k + 1, k + 1>>
              /\ seg_pi # None =>
                    /\ primes_len = 0
                    /\ Len(windows) = n - 1
                    /\ seg_pi = n - 1

\* prime_pi(3) returned 2 after two windows of one number each
C7_Witness ==
    /\ entry = "prime_pi" /\ n = 3 /\ IntSqrt(n) = 1
    /\ seg_pi = 2 /\ primes_len = 0
    /\ windows = <<(<<2, 2>>), (<<3, 3>>)>>

C9_GenTableInRange ==
    locate_i.fn = "gen_table" =>
        /\ locate_i.idx >= 0
        /\ locate_i.idx <= tn
        /\ locate_i.idx < locate_i.len

\* what does hold: the indices are in range whenever n >= 1
C9_GenTableInRangeFromOne ==
    locate_i.fn = "gen_table" /\ tn >= 1 =>
        /\ locate_i.idx <= tn
        /\ locate_i.len = tn + 1

\* not a claim of the specification: locate's second debug_assert! tests the
\* bit against last_word_set whatever the word, so it also rejects in-range
\* indices of the earlier words (TLC refutes this predicate)
LocateDebugAssertsPass == locate_i.debug_ok

PrimesCollected == pc \in WindowPcs \/ (entry = "prime_pi" /\ n >= 2 /\ seg_pi # None)

\* C10: the dummy element sits at slot primes.len(), the last of the
\* allocation, its value int_sqrt(n) + 1 exceeds the bound int_sqrt(high) of
\* every window, and every scan of for_each_max visits exactly the base primes
\* <= bound, in ascending order, reading no slot past the dummy element.
C10_SentinelBoundsScan ==
    /\ pc # "ub"
    /\ PrimesCollected =>
          /\ Len(buf) = primes_len + 1
          /\ buf[primes_len + 1] = IntSqrt(n) + 1
          /\ \A k \in 1 .. primes_len : IsPrime(buf[k]) /\ buf[k] < buf[k + 1]
          /\ {buf[k] : k \in 1 .. primes_len} = {q \in 0 .. IntSqrt(n) : IsPrime(q)}
    /\ pc \in {"scan", "mark", "count"} =>
          /\ max = IntSqrt(high)
          /\ max < buf[primes_len + 1]
          /\ ptr <= primes_len
          /\ \A k \in 1 .. ptr : buf[k] <= max
    /\ pc = "mark" => ptr < primes_len /\ mp = buf[ptr + 1] /\ mp <= max
    /\ pc = "count" => buf[ptr + 1] > max

\* a scan that called mark_non_primes for every base prime and stopped on the
\* dummy element
C10_Witness ==
    /\ pc = "count"
    /\ primes_len >= 3
    /\ ptr = primes_len
    /\ buf[ptr + 1] = IntSqrt(n) + 1

====
